---------------------------- MODULE Spec2Model ----------------------------
(***************************************************************************)
(* A model of the BISAYA++ interpreter: the scanner (src/src/lexer.ts),    *)
(* the recursive-descent parser (src/src/parser.ts), the tree-walking      *)
(* evaluator (src/unnamed/part_001, the Interpreter class) and the driver  *)
(* that chains them on one interpreter instance (src/src/index.ts).        *)
(*                                                                         *)
(* Text data (source text, character/text values, program output) is a    *)
(* sequence of one-character strings, so that scanning, trimming and       *)
(* number formatting are computed character by character.  Symbolic names  *)
(* (token types, identifiers, error names and messages) are strings.       *)
(***************************************************************************)
EXTENDS Integers, Sequences, FiniteSets, TLC

(***************************************************************************)
(* Bounds of the model.                                                    *)
(***************************************************************************)
\* deepest nesting of blocks in the programs that are run
MaxDepth == 2
\* largest number of names one declaration lists
MaxNames == 3
\* iterations after which a loop of the model is cut off (every loop of the
\* programs that are run ends well before it)
MaxIter == 6

(***************************************************************************)
(* Runtime values.  A JavaScript value of the evaluator is a record        *)
(* [k, n, s]: k is its runtime kind, n its number (or 0/1 for a boolean),  *)
(* s its characters.  "undef" is JavaScript's undefined, "nan" and "inf"   *)
(* are the numbers NaN and +/-Infinity (n holds the sign of "inf"), and    *)
(* "tenths" is a number with one decimal digit (n holds ten times it).     *)
(***************************************************************************)
VNum(i) == [k |-> "num", n |-> i, s |-> <<>>]

VStr(cs) == [k |-> "str", n |-> 0, s |-> cs]

VBool(b) == [k |-> "bool", n |-> IF b THEN 1 ELSE 0, s |-> <<>>]

VNull == [k |-> "null", n |-> 0, s |-> <<>>]

VUndef == [k |-> "undef", n |-> 0, s |-> <<>>]

VNaN == [k |-> "nan", n |-> 0, s |-> <<>>]

VInf(sign) == [k |-> "inf", n |-> sign, s |-> <<>>]

VTenths(i) == [k |-> "tenths", n |-> i, s |-> <<>>]

\* the element that stands for the character U+0000 ('\0' in the source)
NUL == "NUL"

DigitChar == <<"0", "1", "2", "3", "4", "5", "6", "7", "8", "9">>

RECURSIVE NatToChars(_)
\* Number.prototype.toString on a non-negative integer
NatToChars(i) ==
    IF i < 10 THEN <<DigitChar[i + 1]>>
    ELSE NatToChars(i \div 10) \o <<DigitChar[(i % 10) + 1]>>

\* value.toString() of a number
NumToChars(v) ==
    CASE v.k = "num" /\ v.n >= 0 -> NatToChars(v.n)
      [] v.k = "num" /\ v.n < 0 -> <<"-">> \o NatToChars(0 - v.n)
      [] v.k = "tenths" /\ v.n >= 0 ->
            NatToChars(v.n \div 10) \o <<".", DigitChar[(v.n % 10) + 1]>>
      [] v.k = "tenths" /\ v.n < 0 ->
            <<"-">> \o NatToChars((0 - v.n) \div 10)
                \o <<".", DigitChar[((0 - v.n) % 10) + 1]>>
      [] v.k = "nan" -> <<"N", "a", "N">>
      [] v.k = "inf" /\ v.n >= 0 -> <<"I", "n", "f", "i", "n", "i", "t", "y">>
      [] v.k = "inf" /\ v.n < 0 -> <<"-", "I", "n", "f", "i", "n", "i", "t", "y">>

IsNumber(v) == v.k \in {"num", "tenths", "nan", "inf"}

\* typeof value === 'number' etc. are decided on k; isTruthy of the Interpreter
isTruthy(v) ==
    CASE v.k = "null" -> FALSE
      [] v.k = "bool" -> v.n = 1
      [] v.k = "num" -> v.n # 0
      [] v.k \in {"nan", "inf"} -> TRUE
      [] v.k = "str" -> v.s # <<>>
      [] OTHER -> TRUE

\* a === b of JavaScript on the modelled values
StrictEq(a, b) == a.k = b.k /\ a.k # "nan" /\ a.n = b.n /\ a.s = b.s

isEqual(a, b) ==
    IF a.k = "null" /\ b.k = "null" THEN TRUE
    ELSE IF a.k = "null" THEN FALSE
    ELSE StrictEq(a, b)

\* stringify of the Interpreter; undefined has no toString and is handled by
\* the callers (CanStringify)
stringify(v) ==
    CASE v.k = "null" -> <<"w", "a", "l", "a">>
      [] v.k = "bool" -> IF v.n = 1 THEN <<"O", "O">> ELSE <<"D", "I", "L", "I">>
      [] IsNumber(v) -> NumToChars(v)
      [] v.k = "str" ->
            IF v.s = <<"$">> THEN <<"\n">>
            ELSE IF v.s = <<"#">> THEN <<"#">>
            ELSE v.s

CanStringify(v) == v.k # "undef"

(***************************************************************************)
(* JavaScript's operators on the modelled values.  ToNumber of a text      *)
(* that holds a digit or spells Infinity, the ordering of two text values  *)
(* a quotient with more than one decimal digit and arithmetic on a number  *)
(* that is not an integer are outside the model: the CASEs below have no   *)
(* arm for them, and no program that is run reaches them.                  *)
(***************************************************************************)
JsWhitespace == {" ", "\t", "\n", "\r"}

\* Number(value): blank text is 0, text with no digit in it is NaN
ToNumber(v) ==
    CASE IsNumber(v) -> v
      [] v.k = "bool" -> VNum(v.n)
      [] v.k = "null" -> VNum(0)
      [] v.k = "undef" -> VNaN
      [] v.k = "str" /\ (\A i \in 1..Len(v.s) : v.s[i] \in JsWhitespace) -> VNum(0)
      [] v.k = "str" /\ (\E i \in 1..Len(v.s) : v.s[i] \notin JsWhitespace)
            /\ (\A i \in 1..Len(v.s) :
                    v.s[i] \notin {"0", "1", "2", "3", "4", "5", "6", "7", "8", "9", "I"})
            -> VNaN

\* String(value) as the + operator applies it
JsString(v) ==
    CASE v.k = "str" -> v.s
      [] IsNumber(v) -> NumToChars(v)
      [] v.k = "bool" ->
            IF v.n = 1 THEN <<"t", "r", "u", "e">> ELSE <<"f", "a", "l", "s", "e">>
      [] v.k = "null" -> <<"n", "u", "l", "l">>
      [] v.k = "undef" -> <<"u", "n", "d", "e", "f", "i", "n", "e", "d">>

Sign(i) == IF i < 0 THEN 0 - 1 ELSE 1

Abs(i) == IF i < 0 THEN 0 - i ELSE i

JsAdd(l, r) ==
    IF l.k = "str" \/ r.k = "str" THEN VStr(JsString(l) \o JsString(r))
    ELSE LET a == ToNumber(l)
             b == ToNumber(r)
         IN  CASE a.k = "num" /\ b.k = "num" -> VNum(a.n + b.n)
               [] a.k = "nan" \/ b.k = "nan" -> VNaN
               [] a.k = "inf" /\ b.k = "inf" -> IF a.n = b.n THEN a ELSE VNaN
               [] a.k = "inf" -> a
               [] b.k = "inf" -> b

JsSub(l, r) ==
    LET a == ToNumber(l)
        b == ToNumber(r)
    IN  CASE a.k = "num" /\ b.k = "num" -> VNum(a.n - b.n)
          [] a.k = "nan" \/ b.k = "nan" -> VNaN
          [] a.k = "inf" /\ b.k = "inf" -> IF a.n = b.n THEN VNaN ELSE a
          [] a.k = "inf" -> a
          [] b.k = "inf" -> VInf(0 - b.n)

JsMul(l, r) ==
    LET a == ToNumber(l)
        b == ToNumber(r)
    IN  CASE a.k = "num" /\ b.k = "num" -> VNum(a.n * b.n)
          [] a.k = "nan" \/ b.k = "nan" -> VNaN
          [] a.k = "inf" /\ b.k = "inf" -> VInf(a.n * b.n)
          [] a.k = "inf" -> IF b.n = 0 THEN VNaN ELSE VInf(a.n * Sign(b.n))
          [] b.k = "inf" -> IF a.n = 0 THEN VNaN ELSE VInf(b.n * Sign(a.n))

\* left / right once the evaluator has let the operands through
JsDiv(l, r) ==
    LET a == ToNumber(l)
        b == ToNumber(r)
    IN  CASE a.k = "nan" \/ b.k = "nan" -> VNaN
          [] a.k = "inf" /\ b.k = "inf" -> VNaN
          [] a.k = "inf" -> VInf(a.n * Sign(b.n))
          [] b.k = "inf" -> VNum(0)
          [] a.k = "num" /\ b.k = "num" /\ b.n = 0 ->
                IF a.n = 0 THEN VNaN ELSE VInf(Sign(a.n))
          [] a.k = "num" /\ b.k = "num" /\ b.n # 0 /\ Abs(a.n) % Abs(b.n) = 0 ->
                VNum(Sign(a.n) * Sign(b.n) * (Abs(a.n) \div Abs(b.n)))
          [] a.k = "num" /\ b.k = "num" /\ b.n # 0 /\ Abs(a.n) % Abs(b.n) # 0
                /\ (10 * Abs(a.n)) % Abs(b.n) = 0 ->
                VTenths(Sign(a.n) * Sign(b.n) * ((10 * Abs(a.n)) \div Abs(b.n)))

\* left % right: the remainder takes the sign of the dividend
JsMod(l, r) ==
    LET a == ToNumber(l)
        b == ToNumber(r)
    IN  CASE a.k = "nan" \/ b.k = "nan" -> VNaN
          [] a.k = "inf" -> VNaN
          [] b.k = "inf" -> a
          [] a.k = "num" /\ b.k = "num" /\ b.n = 0 -> VNaN
          [] a.k = "num" /\ b.k = "num" /\ b.n # 0 ->
                VNum(Sign(a.n) * (Abs(a.n) % Abs(b.n)))

\* left < right on values that are not both text
JsLess(l, r) ==
    LET a == ToNumber(l)
        b == ToNumber(r)
    IN  CASE a.k = "nan" \/ b.k = "nan" -> FALSE
          [] a.k = "num" /\ b.k = "num" -> a.n < b.n
          [] a.k = "inf" /\ b.k = "inf" -> a.n < b.n
          [] a.k = "inf" -> a.n < 0
          [] b.k = "inf" -> b.n > 0

JsLessEq(l, r) ==
    LET ok == ToNumber(l).k # "nan" /\ ToNumber(r).k # "nan"
    IN  ok /\ ~JsLess(r, l)

JsNeg(v) ==
    LET a == ToNumber(v)
    IN  CASE a.k = "num" -> VNum(0 - a.n)
          [] a.k = "nan" -> VNaN
          [] a.k = "inf" -> VInf(0 - a.n)


(***************************************************************************)
(* Tokens and AST nodes (the interfaces at the end of src/src/lexer.ts).   *)
(* A node is a record tagged by its type field; an optional field          *)
(* (initializer, elseBranch) is absent from the record when undefined.     *)
(* The nodes' own line and column are not modelled: only the message of    *)
(* an unknown node type reads them.                                        *)
(***************************************************************************)
Token(type, lexeme, literal, line, column) ==
    [type |-> type, lexeme |-> lexeme, literal |-> literal,
     line |-> line, column |-> column]

\* the four type keywords of a declaration
TypeKeywords == {"NUMERO", "LETRA", "TINUOD", "TIPIK"}

\* Environment: the chain of frames from the root (first) to the current
\* frame (last); each frame's parent is the frame before it.  A frame maps a
\* name to its Variable.
EmptyFrame == <<>>

Variable(type, value) == [type |-> type, value |-> value]

NewEnvironment == <<EmptyFrame>>

CurrentFrame(env) == env[Len(env)]

NoError == [name |-> "", message |-> ""]

\* The evaluator's running state: the Interpreter's fields (environment,
\* output), the value the last execute call returned, the exception in
\* flight; printed records the display text of every print statement that
\* completed, and errDepth the length of the frame chain where the exception
\* was raised (both are observations, the code does not keep them).
Threw(st) == st.error.name # ""

Throw(st, name, message) ==
    [st EXCEPT !.error = [name |-> name, message |-> message],
               !.value = VUndef,
               !.errDepth = Len(st.environment)]

Return(st, v) == [st EXCEPT !.value = v]

\* the rest of a method once a call it made has returned: nothing of it runs
\* when that call threw
Bind(r, K(_)) == IF Threw(r) THEN r ELSE K(r)

RECURSIVE execute(_, _)
RECURSIVE execStatements(_, _)
RECURSIVE executeVarDecl(_, _)
RECURSIVE executePrint(_, _)
RECURSIVE executeBlock(_, _)
RECURSIVE executeIf(_, _)
RECURSIVE executeFor(_, _)
RECURSIVE forLoop(_, _, _)
RECURSIVE executeBinary(_, _)
RECURSIVE executeUnary(_, _)
RECURSIVE executeAssign(_, _)

\* ZeroValue as it would be if LETRA started as the empty text and TINUOD
\* as null
ZeroValueEmpty(type) ==
    CASE type = "NUMERO" -> VNum(0)
      [] type = "LETRA" -> VStr(<<>>)
      [] type = "TINUOD" -> VNull
      [] type = "TIPIK" -> VNum(0)

\* the zero value a declaration without initializer binds
ZeroValue(type) ==
    CASE type = "NUMERO" -> VNum(0)
      [] type = "LETRA" -> VStr(<<NUL>>)
      [] type = "TINUOD" -> VBool(FALSE)
      [] type = "TIPIK" -> VNum(0)

\* the switch on node.varType.type of a declaration without initializer
defaultValue(node, st) ==
    IF node.varType.type \in TypeKeywords
    THEN Return(st, ZeroValue(node.varType.type))
    ELSE Throw(st, "RuntimeError", "Invalid type: " \o node.varType.type)

\* DefineAll as it would be if a declaration wrote to the root frame
DefineAllRoot(env, names, type, value) ==
    LET listed == {names[i].lexeme : i \in 1..Len(names)}
    IN  [env EXCEPT ![1] =
            [n \in (DOMAIN env[1]) \cup listed |->
                IF n \in listed THEN Variable(type, value) ELSE env[1][n]]]

\* this.environment.variables.set(name, {type, value}) for every listed name
DefineAll(env, names, type, value) ==
    LET frame == CurrentFrame(env)
        listed == {names[i].lexeme : i \in 1..Len(names)}
    IN  [env EXCEPT ![Len(env)] =
            [n \in (DOMAIN frame) \cup listed |->
                IF n \in listed THEN Variable(type, value) ELSE frame[n]]]

\* bindNames as it would be if the initializer belonged to the last name
\* alone, the names before it getting the zero value
bindLastName(node, r) ==
    [r EXCEPT !.environment =
        DefineAll(DefineAll(r.environment, node.names, node.varType.type, VNum(0)),
                  <<node.names[Len(node.names)]>>, node.varType.type, r.value)]

\* the for loop over node.names, r.value being the value to bind
bindNames(node, r) ==
    [r EXCEPT !.environment =
        DefineAll(r.environment, node.names, node.varType.type, r.value)]

executeVarDecl(node, st) ==
    Bind(IF "initializer" \in DOMAIN node THEN execute(node.initializer, st)
         ELSE defaultValue(node, st),
         LAMBDA r : bindNames(node, r))

\* const output = this.stringify(value); this.output += output
appendOutput(r) ==
    IF ~CanStringify(r.value)
    THEN Throw(r, "TypeError", "Cannot read properties of undefined")
    ELSE [r EXCEPT !.output = r.output \o stringify(r.value),
                   !.printed = Append(r.printed, stringify(r.value)),
                   !.value = VUndef]

executePrint(node, st) ==
    Bind(execute(node.value, st), LAMBDA r : appendOutput(r))

\* for (const statement of statements) this.execute(statement)
execStatements(statements, st) ==
    IF Len(statements) = 0 THEN st
    ELSE Bind(execute(Head(statements), st),
              LAMBDA r : execStatements(Tail(statements), r))

\* this.environment = { variables: new Map(), parent: previousEnv }
pushFrame(st) == [st EXCEPT !.environment = Append(st.environment, EmptyFrame)]

\* finally { this.environment = previousEnv }: previousEnv is the chain that
\* was current on entry (with whatever has been stored in its frames since),
\* and the finally clause runs whether or not the statements threw
restoreFrame(previousEnv, inner) ==
    [inner EXCEPT !.environment = SubSeq(inner.environment, 1, Len(previousEnv)),
                  !.value = VUndef]

\* executeBlock as it would be without the finally clause: the frame is
\* restored on normal completion only
executeBlockNoFinally(node, st) ==
    Bind(execStatements(node.statements, pushFrame(st)),
         LAMBDA inner : restoreFrame(st.environment, inner))

executeBlock(node, st) ==
    restoreFrame(st.environment, execStatements(node.statements, pushFrame(st)))

executeIf(node, st) ==
    Bind(execute(node.condition, st),
         LAMBDA c : IF isTruthy(c.value) THEN execute(node.thenBranch, c)
                    ELSE IF "elseBranch" \in DOMAIN node
                    THEN execute(node.elseBranch, c)
                    ELSE Return(c, VUndef))

\* while (isTruthy(execute(condition))) { execute(body); execute(increment) }
forLoop(node, st, fuel) ==
    Bind(execute(node.condition, st),
         LAMBDA c :
            IF ~isTruthy(c.value) THEN Return(c, VUndef)
            ELSE IF fuel = 0 THEN Throw(c, "CutOff", "loop cut off by the model")
            ELSE Bind(execute(node.body, c),
                      LAMBDA b : Bind(execute(node.increment, b),
                                      LAMBDA i : forLoop(node, i, fuel - 1))))

executeFor(node, st) ==
    Bind(execute(node.initializer, st), LAMBDA i : forLoop(node, i, MaxIter))

\* divide as it would be without the check of the right operand
divideUnchecked(left, right, r) == Return(r, JsDiv(left, right))

\* case TokenType.DIVIDE: if (right === 0) throw ...; return left / right
divide(left, right, r) ==
    IF StrictEq(right, VNum(0))
    THEN Throw(r, "RuntimeError", "Division by zero")
    ELSE Return(r, JsDiv(left, right))

\* the switch on node.operator.type, both operands evaluated (r: the state
\* after the right one)
applyBinary(op, left, right, r) ==
    CASE op = "+" -> Return(r, JsAdd(left, right))
      [] op = "-" -> Return(r, JsSub(left, right))
      [] op = "*" -> Return(r, JsMul(left, right))
      [] op = "/" -> divide(left, right, r)
      [] op = "%" -> Return(r, JsMod(left, right))
      [] op = ">" -> Return(r, VBool(JsLess(right, left)))
      [] op = ">=" -> Return(r, VBool(JsLessEq(right, left)))
      [] op = "<" -> Return(r, VBool(JsLess(left, right)))
      [] op = "<=" -> Return(r, VBool(JsLessEq(left, right)))
      [] op = "==" -> Return(r, VBool(isEqual(left, right)))
      [] op = "<>" -> Return(r, VBool(~isEqual(left, right)))
      [] op = "UG" -> Return(r, VBool(isTruthy(left) /\ isTruthy(right)))
      [] op = "O" -> Return(r, VBool(isTruthy(left) \/ isTruthy(right)))
      [] op = "&" ->
            IF CanStringify(left) /\ CanStringify(right)
            THEN Return(r, VStr(stringify(left) \o stringify(right)))
            ELSE Throw(r, "TypeError", "Cannot read properties of undefined")
      [] OTHER -> Throw(r, "RuntimeError", "Invalid operator: " \o op)

executeBinary(node, st) ==
    Bind(execute(node.left, st),
         LAMBDA l : Bind(execute(node.right, l),
                         LAMBDA r : applyBinary(node.operator.type,
                                                l.value, r.value, r)))

applyUnary(op, r) ==
    CASE op = "-" -> Return(r, JsNeg(r.value))
      [] op = "DILI" -> Return(r, VBool(~isTruthy(r.value)))
      [] OTHER -> Throw(r, "RuntimeError", "Invalid operator: " \o op)

executeUnary(node, st) ==
    Bind(execute(node.right, st), LAMBDA r : applyUnary(node.operator.type, r))

executeLiteral(node, st) == Return(st, node.value)

\* this.environment.variables.get(name): the current frame's map and no other
executeVariable(node, st) ==
    LET frame == CurrentFrame(st.environment)
        name == node.name.lexeme
    IN  IF name \notin DOMAIN frame
        THEN Throw(st, "RuntimeError", "Undefined variable: " \o name)
        ELSE Return(st, frame[name].value)

\* storeValue as it would be if an assignment stored its value and yielded
\* none
storeNoYield(name, r) ==
    IF name \notin DOMAIN CurrentFrame(r.environment)
    THEN Throw(r, "RuntimeError", "Undefined variable: " \o name)
    ELSE [r EXCEPT !.environment[Len(r.environment)][name].value = r.value,
                   !.value = VUndef]

\* storeValue as it would be if assigning an unknown name created it
storeOrCreate(name, r) ==
    [r EXCEPT !.environment[Len(r.environment)] =
        (name :> Variable("NUMERO", r.value)) @@ @]

\* variable = this.environment.variables.get(name); variable.value = value
storeValue(name, r) ==
    IF name \notin DOMAIN CurrentFrame(r.environment)
    THEN Throw(r, "RuntimeError", "Undefined variable: " \o name)
    ELSE [r EXCEPT !.environment[Len(r.environment)][name].value = r.value]

executeAssign(node, st) ==
    Bind(execute(node.value, st), LAMBDA r : storeValue(node.name.lexeme, r))

execute(node, st) ==
    CASE node.type = "VarDeclStmt" -> executeVarDecl(node, st)
      [] node.type = "PrintStmt" -> executePrint(node, st)
      [] node.type = "BlockStmt" -> executeBlock(node, st)
      [] node.type = "IfStmt" -> executeIf(node, st)
      [] node.type = "ForStmt" -> executeFor(node, st)
      [] node.type = "BinaryExpr" -> executeBinary(node, st)
      [] node.type = "UnaryExpr" -> executeUnary(node, st)
      [] node.type = "LiteralExpr" -> executeLiteral(node, st)
      [] node.type = "VariableExpr" -> executeVariable(node, st)
      [] node.type = "AssignExpr" -> executeAssign(node, st)
      [] OTHER -> Throw(st, "RuntimeError", "Unknown node type: " \o node.type)

\* startState as it would be if interpret did not clear the output
startStateKeepOutput(self) ==
    [environment |-> self.environment, output |-> self.output, value |-> VUndef,
     error |-> NoError, printed |-> <<>>, errDepth |-> 0]

\* this.output = '' and the evaluator's state as the statements start
startState(self) ==
    [environment |-> self.environment, output |-> <<>>, value |-> VUndef,
     error |-> NoError, printed |-> <<>>, errDepth |-> 0]

\* return this.output, or the catch clause: a RuntimeError is rethrown, any
\* other error is wrapped in an Error
outcome(r) ==
    [environment |-> r.environment,
     output |-> r.output,
     thrown |-> IF ~Threw(r) THEN ""
                ELSE IF r.error.name = "RuntimeError" THEN "RuntimeError"
                ELSE "Error",
     message |-> IF ~Threw(r) THEN ""
                 ELSE IF r.error.name = "RuntimeError" THEN r.error.message
                 ELSE "Unexpected error: " \o r.error.message,
     returned |-> IF Threw(r) THEN <<>> ELSE r.output,
     printed |-> r.printed,
     errDepth |-> r.errDepth]

\* Interpreter.interpret on the instance `self` = [environment, output]: the
\* instance after the call, what the call returned (returned, when thrown is
\* "") or threw (thrown, message)
interpret(statements, self) == outcome(execStatements(statements, startState(self)))

(***************************************************************************)
(* The scanner (class Lexer).  lx is the Lexer object: source, tokens,     *)
(* start, current (0-based, as in the code), line, column; error is the    *)
(* message of the Error it threw, "" while it has thrown none.             *)
(***************************************************************************)
LowerCase ==
    {"a", "b", "c", "d", "e", "f", "g", "h", "i", "j", "k", "l", "m", "n", "o", "p", "q", "r", "s", "t", "u", "v", "w", "x", "y", "z"}

UpperCase ==
    {"A", "B", "C", "D", "E", "F", "G", "H", "I", "J", "K", "L", "M", "N", "O", "P", "Q", "R", "S", "T", "U", "V", "W", "X", "Y", "Z"}

\* Lexer.keywords
keywords ==
    [SUGOD |-> "SUGOD", KATAPUSAN |-> "KATAPUSAN", MUGNA |-> "MUGNA",
     IPAKITA |-> "IPAKITA", DAWAT |-> "DAWAT", UG |-> "UG", O |-> "O",
     DILI |-> "DILI", KUNG |-> "KUNG", PUNDOK |-> "PUNDOK",
     NUMERO |-> "NUMERO", LETRA |-> "LETRA", TINUOD |-> "TINUOD",
     TIPIK |-> "TIPIK", OO |-> "BOOLEAN"]
    @@ ("KUNG WALA" :> "KUNG WALA") @@ ("KUNG DILI" :> "KUNG DILI")
    @@ ("ALANG SA" :> "ALANG SA")

isDigit(c) == c \in {DigitChar[i] : i \in 1..10}

isAlpha(c) == c \in LowerCase \cup UpperCase \cup {"_"}

isAlphaNumeric(c) == isAlpha(c) \/ isDigit(c)

NewLexer(source) ==
    [source |-> source, tokens |-> <<>>, start |-> 0, current |-> 0,
     line |-> 1, column |-> 1, error |-> ""]

LexIsAtEnd(lx) == lx.current >= Len(lx.source)

LexPeek(lx) == IF LexIsAtEnd(lx) THEN NUL ELSE lx.source[lx.current + 1]

LexPeekNext(lx) ==
    IF lx.current + 1 >= Len(lx.source) THEN NUL ELSE lx.source[lx.current + 2]

\* advance(): the lexer after it; the character it returns is LexPeek before
LexAdvance(lx) == [lx EXCEPT !.current = @ + 1, !.column = @ + 1]

\* match(expected) is true exactly when LexPeek(lx) = expected and not at end
LexMatches(lx, expected) == ~LexIsAtEnd(lx) /\ lx.source[lx.current + 1] = expected

LexThrow(lx, message) == [lx EXCEPT !.error = message]

RECURSIVE Text(_)
\* a run of characters as one string
Text(cs) == IF Len(cs) = 0 THEN "" ELSE Head(cs) \o Text(Tail(cs))

\* source.substring(from, to), 0-based and end-exclusive
Substring(source, from, to) == SubSeq(source, from + 1, to)

addToken(lx, type, literal) ==
    LET text == Substring(lx.source, lx.start, lx.current)
    IN  [lx EXCEPT !.tokens =
            Append(@, Token(type, Text(text), literal, lx.line,
                            lx.column - Len(text)))]

DigitVal(c) == CHOOSE i \in 0..9 : DigitChar[i + 1] = c

RECURSIVE parseInt(_)
parseInt(cs) ==
    IF Len(cs) = 0 THEN 0
    ELSE 10 * parseInt(SubSeq(cs, 1, Len(cs) - 1)) + DigitVal(cs[Len(cs)])

\* parseFloat of digits '.' digits: the whole part and the digits after the
\* point (no arithmetic of the model ever receives a decimal literal)
parseFloat(cs) ==
    LET dot == CHOOSE i \in 1..Len(cs) : cs[i] = "."
    IN  [k |-> "dec", n |-> parseInt(SubSeq(cs, 1, dot - 1)),
         s |-> SubSeq(cs, dot + 1, Len(cs))]

RECURSIVE AdvanceDigits(_)
\* while (isDigit(peek())) advance()
AdvanceDigits(lx) ==
    IF isDigit(LexPeek(lx)) THEN AdvanceDigits(LexAdvance(lx)) ELSE lx

RECURSIVE AdvanceAlphaNumeric(_)
\* while (isAlphaNumeric(peek())) advance()
AdvanceAlphaNumeric(lx) ==
    IF isAlphaNumeric(LexPeek(lx)) THEN AdvanceAlphaNumeric(LexAdvance(lx)) ELSE lx

RECURSIVE AdvanceToLineEnd(_)
\* while (peek() !== '\n' && !isAtEnd()) advance()
AdvanceToLineEnd(lx) ==
    IF LexPeek(lx) # "\n" /\ ~LexIsAtEnd(lx)
    THEN AdvanceToLineEnd(LexAdvance(lx)) ELSE lx

RECURSIVE AdvanceToQuote(_)
\* while (peek() !== '"' && !isAtEnd()) { if (peek() === '\n') line++; advance() }
AdvanceToQuote(lx) ==
    IF LexPeek(lx) # "\"" /\ ~LexIsAtEnd(lx)
    THEN AdvanceToQuote(LexAdvance(
             IF LexPeek(lx) = "\n" THEN [lx EXCEPT !.line = @ + 1] ELSE lx))
    ELSE lx

charLiteral(lx) ==
    IF LexIsAtEnd(lx) \/ LexPeek(lx) = "\n"
    THEN LexThrow(lx, "Unterminated character")
    ELSE LET char == LexPeek(lx)
             a == LexAdvance(lx)
         IN  IF LexPeek(a) # "'"
             THEN LexThrow(a, "Invalid character literal")
             ELSE addToken(LexAdvance(a), "LETRA", VStr(<<char>>))

\* the closing quote and the token, a: the lexer after advance()
stringToken(a) ==
    addToken(a, "LETRA", VStr(Substring(a.source, a.start + 1, a.current - 1)))

\* a: the lexer after the while loop
closeString(a) ==
    IF LexIsAtEnd(a) THEN LexThrow(a, "Unterminated string")
    ELSE stringToken(LexAdvance(a))

string(lx) == closeString(AdvanceToQuote(lx))

\* a: the lexer after the while loop
identifierToken(a, text) ==
    addToken(a, IF text \in DOMAIN keywords THEN keywords[text] ELSE "IDENTIFIER",
             VNull)

wordToken(a) == identifierToken(a, Text(Substring(a.source, a.start, a.current)))

identifier(lx) == wordToken(AdvanceAlphaNumeric(lx))

\* b: the lexer after the digits of the fraction
decimalToken(b) ==
    addToken(b, "TIPIK", parseFloat(Substring(b.source, b.start, b.current)))

\* a: the lexer after the first run of digits
numberToken(a) ==
    IF LexPeek(a) = "." /\ isDigit(LexPeekNext(a))
    THEN decimalToken(AdvanceDigits(LexAdvance(a)))
    ELSE addToken(a, "NUMERO",
                  VNum(parseInt(Substring(a.source, a.start, a.current))))

number(lx) == numberToken(AdvanceDigits(lx))

\* a: the lexer at the end of the comment's line
endComment(a) ==
    IF LexPeek(a) = "\n"
    THEN [LexAdvance(a) EXCEPT !.line = @ + 1, !.column = 1]
    ELSE a

\* the '-' case: a comment through the end of the line, or MINUS
minusOrComment(lx) ==
    IF LexMatches(lx, "-")
    THEN endComment(AdvanceToLineEnd(LexAdvance(lx)))
    ELSE addToken(lx, "-", VNull)

\* a one-character token, or the two-character one when '=' follows
oneOrTwo(lx, single, double) ==
    IF LexMatches(lx, "=") THEN addToken(LexAdvance(lx), double, VNull)
    ELSE addToken(lx, single, VNull)

\* the switch on c = advance(), lx: the lexer after that advance()
scanChar(c, lx) ==
        CASE c \in {"(", ")", "{", "}", ",", ":", "+", "*", "/"} ->
                addToken(lx, c, VNull)
          [] c = "&" -> addToken(lx, "&", VNull)
          [] c = "'" -> charLiteral(lx)
          [] c = "-" -> minusOrComment(lx)
          [] c = "=" -> oneOrTwo(lx, "=", "==")
          [] c = ">" -> oneOrTwo(lx, ">", ">=")
          [] c = "<" -> oneOrTwo(lx, "<", "<=")
          [] c = "!" ->
                IF LexMatches(lx, "=") THEN addToken(LexAdvance(lx), "<>", VNull)
                ELSE LexThrow(lx, "Unexpected character '!'")
          [] c \in {" ", "\r", "\t"} -> lx
          [] c = "\n" -> [lx EXCEPT !.line = @ + 1, !.column = 1]
          [] c = "\"" -> string(lx)
          [] OTHER ->
                IF isDigit(c) THEN number(lx)
                ELSE IF isAlpha(c) THEN identifier(lx)
                ELSE LexThrow(lx, "Unexpected character '" \o c \o "'")

scanToken(lx) == scanChar(LexPeek(lx), LexAdvance(lx))

RECURSIVE scanLoop(_)
\* while (!isAtEnd()) { start = current; scanToken() }
scanLoop(lx) ==
    IF lx.error # "" \/ LexIsAtEnd(lx) THEN lx
    ELSE scanLoop(scanToken([lx EXCEPT !.start = lx.current]))

\* scanTokens(): the lexer after the scan; its tokens end with EOF unless it
\* threw
addEOF(lx) ==
    IF lx.error # "" THEN lx
    ELSE [lx EXCEPT !.tokens =
             Append(@, Token("EOF", "", VNull, lx.line, lx.column))]

scanTokens(source) == addEOF(scanLoop(NewLexer(source)))

(***************************************************************************)
(* The parser (class Parser).  ps is the Parser object: tokens, current    *)
(* (0-based), with error the message of the ParseError in flight ("" when  *)
(* none), node / nodes what the method returned and console the lines it   *)
(* wrote with console.error.                                               *)
(***************************************************************************)
NewParser(tokens) ==
    [tokens |-> tokens, current |-> 0, error |-> "", node |-> <<>>, nodes |-> <<>>,
     console |-> <<>>]

peek(ps) == ps.tokens[ps.current + 1]

previous(ps) == ps.tokens[ps.current]

isAtEnd(ps) == peek(ps).type = "EOF"

check(ps, type) == ~isAtEnd(ps) /\ peek(ps).type = type

\* advance(): the parser after it; the token it returns is previous() of that
advance(ps) == IF ~isAtEnd(ps) THEN [ps EXCEPT !.current = @ + 1] ELSE ps

\* match(...types) is true exactly when MatchAny, and then advances
MatchAny(ps, types) == \E t \in types : check(ps, t)

ParseThrow(ps, message) == [ps EXCEPT !.error = message]

Failed(ps) == ps.error # ""

consume(ps, type, message) ==
    IF check(ps, type) THEN advance(ps) ELSE ParseThrow(ps, message)

RECURSIVE syncLoop(_)
syncLoop(ps) ==
    IF isAtEnd(ps) THEN ps
    ELSE IF previous(ps).type = "KATAPUSAN" THEN ps
    ELSE IF peek(ps).type \in {"MUGNA", "IPAKITA"} THEN ps
    ELSE syncLoop(advance(ps))

synchronize(ps) == syncLoop(advance(ps))

RECURSIVE declaration(_)
RECURSIVE declarations(_, _)
RECURSIVE statement(_)
RECURSIVE varDeclaration(_)
RECURSIVE printStatement(_)
RECURSIVE ifStatement(_)
RECURSIVE forStatement(_)
RECURSIVE blockStatement(_)
RECURSIVE expression(_)
RECURSIVE concatLoop(_, _)
RECURSIVE assignment(_)

\* the rest of a parser method once a call it made has returned: nothing of
\* it runs when that call threw
Then(ps, K(_)) == IF Failed(ps) THEN ps ELSE K(ps)

\* return { type, ... }, a: the parser after match() advanced
literalNode(a) ==
    [a EXCEPT !.node = [type |-> "LiteralExpr", value |-> previous(a).literal]]

variableNode(a) ==
    [a EXCEPT !.node = [type |-> "VariableExpr", name |-> previous(a)]]

primary(ps) ==
    IF MatchAny(ps, {"NUMERO", "LETRA", "TINUOD"}) THEN literalNode(advance(ps))
    ELSE IF MatchAny(ps, {"IDENTIFIER"}) THEN variableNode(advance(ps))
    ELSE ParseThrow([ps EXCEPT !.console =
                        Append(@, "Unexpected token: " \o peek(ps).type)],
                    "Expect expression. Found: " \o peek(ps).type)

\* { type: 'BinaryExpr', left, operator, right }
binaryNode(left, operator, right) ==
    [type |-> "BinaryExpr", left |-> left, operator |-> operator, right |-> right]

\* The five rules below are methods of the Parser that no method calls:
\* expression calls assignment and assignment calls primary.
RECURSIVE unary(_)
unary(ps) ==
    IF MatchAny(ps, {"-", "DILI"})
    THEN Then(unary(advance(ps)),
              LAMBDA r : [r EXCEPT !.node = [type |-> "UnaryExpr",
                                             operator |-> previous(advance(ps)),
                                             right |-> r.node]])
    ELSE primary(ps)

RECURSIVE factorLoop(_, _)
\* while (match(MULTIPLY, DIVIDE, MODULO)) { ... right = unary() ... }
factorLoop(ps, expr) ==
    IF MatchAny(ps, {"*", "/", "%"})
    THEN Then(unary(advance(ps)),
              LAMBDA r : factorLoop(r, binaryNode(expr, previous(advance(ps)), r.node)))
    ELSE [ps EXCEPT !.node = expr]

factor(ps) == Then(unary(ps), LAMBDA e : factorLoop(e, e.node))

RECURSIVE termLoop(_, _)
\* while (match(PLUS, MINUS)) { ... right = factor() ... }
termLoop(ps, expr) ==
    IF MatchAny(ps, {"+", "-"})
    THEN Then(factor(advance(ps)),
              LAMBDA r : termLoop(r, binaryNode(expr, previous(advance(ps)), r.node)))
    ELSE [ps EXCEPT !.node = expr]

term(ps) == Then(factor(ps), LAMBDA e : termLoop(e, e.node))

RECURSIVE comparisonLoop(_, _)
\* while (match(GREATER, GREATER_EQUAL, LESS, LESS_EQUAL)) { ... right = term() ... }
comparisonLoop(ps, expr) ==
    IF MatchAny(ps, {">", ">=", "<", "<="})
    THEN Then(term(advance(ps)),
              LAMBDA r : comparisonLoop(r, binaryNode(expr, previous(advance(ps)),
                                                      r.node)))
    ELSE [ps EXCEPT !.node = expr]

comparison(ps) == Then(term(ps), LAMBDA e : comparisonLoop(e, e.node))

RECURSIVE equalityLoop(_, _)
\* while (match(EQUAL, NOT_EQUAL)) { ... right = comparison() ... }
equalityLoop(ps, expr) ==
    IF MatchAny(ps, {"==", "<>"})
    THEN Then(comparison(advance(ps)),
              LAMBDA r : equalityLoop(r, binaryNode(expr, previous(advance(ps)),
                                                    r.node)))
    ELSE [ps EXCEPT !.node = expr]

equality(ps) == Then(comparison(ps), LAMBDA e : equalityLoop(e, e.node))

\* expr: the target, v: the parser after the value was parsed
assignNode(expr, v) ==
    IF expr.type = "VariableExpr"
    THEN [v EXCEPT !.node = [type |-> "AssignExpr", name |-> expr.name,
                             value |-> v.node]]
    ELSE ParseThrow(v, "Invalid assignment target.")

assignment(ps) ==
    Then(primary(ps),
         LAMBDA e : IF MatchAny(e, {"="})
                    THEN Then(expression(advance(e)),
                              LAMBDA v : assignNode(e.node, v))
                    ELSE e)

\* while (match(CONCAT)) { operator = previous(); right = assignment(); ... }
concatLoop(ps, expr) ==
    IF MatchAny(ps, {"&"})
    THEN Then(assignment(advance(ps)),
              LAMBDA r : concatLoop(r, [type |-> "BinaryExpr", left |-> expr,
                                        operator |-> previous(advance(ps)),
                                        right |-> r.node]))
    ELSE [ps EXCEPT !.node = expr]

expression(ps) == Then(assignment(ps), LAMBDA e : concatLoop(e, e.node))

expressionStatement(ps) == expression(ps)

RECURSIVE nameList(_, _)
\* do { names.push(consume(IDENTIFIER)) } while (match(COMMA))
nameList(ps, names) ==
    Then(consume(ps, "IDENTIFIER", "Expect variable name."),
         LAMBDA c : IF MatchAny(c, {","})
                    THEN nameList(advance(c), Append(names, previous(c)))
                    ELSE [c EXCEPT !.nodes = Append(names, previous(c))])

\* n: the parser after the names, decl: the node without its initializer
initializerOf(n, decl) ==
    IF MatchAny(n, {"="})
    THEN Then(expression(advance(n)),
              LAMBDA i : [i EXCEPT !.node = decl @@ [initializer |-> i.node]])
    ELSE [n EXCEPT !.node = decl]

\* t: the parser after const type = this.advance(), which returned type
typedDeclaration(t, type) ==
    IF type.type \notin TypeKeywords
    THEN ParseThrow(t, "Expected type after 'MUGNA', got " \o type.type)
    ELSE Then(nameList(t, <<>>),
              LAMBDA n : initializerOf(n, [type |-> "VarDeclStmt",
                                           varType |-> type, names |-> n.nodes]))

varDeclaration(ps) == typedDeclaration(advance(ps), previous(advance(ps)))

printStatement(ps) ==
    Then(consume(ps, ":", "Expect ':' after 'IPAKITA'"),
         LAMBDA c : Then(expression(c),
                         LAMBDA v : [v EXCEPT !.node = [type |-> "PrintStmt",
                                                        value |-> v.node]]))

\* while (!check(stop) && !isAtEnd()) statements.push(declaration())
declarations(ps, stop) ==
    IF ~check(ps, stop) /\ ~isAtEnd(ps)
    THEN Then(declaration(ps),
              LAMBDA d : declarations([d EXCEPT !.nodes = Append(ps.nodes, d.node)],
                                      stop))
    ELSE ps

blockStatement(ps) ==
    Then(consume(ps, "{", "Expect '{' before block."),
         LAMBDA open :
            Then(declarations([open EXCEPT !.nodes = <<>>], "}"),
                 LAMBDA body :
                    Then(consume(body, "}", "Expect '}' after block."),
                         LAMBDA close :
                            [close EXCEPT !.node = [type |-> "BlockStmt",
                                                    statements |-> body.nodes],
                                          !.nodes = ps.nodes])))

\* t: the parser after the then block, node: the node without its else branch
elseBranchOf(t, node) ==
    IF MatchAny(t, {"KUNG DILI"}) \/ MatchAny(t, {"KUNG WALA"})
    THEN Then(blockStatement(advance(t)),
              LAMBDA e : [e EXCEPT !.node = node @@ [elseBranch |-> e.node]])
    ELSE [t EXCEPT !.node = node]

ifStatement(ps) ==
    Then(expression(ps),
         LAMBDA c : Then(blockStatement(c),
                         LAMBDA t : elseBranchOf(t, [type |-> "IfStmt",
                                                     condition |-> c.node,
                                                     thenBranch |-> t.node])))

forStatement(ps) ==
    Then(expression(ps), LAMBDA i :
    Then(consume(i, ",", "Expect ',' after initializer."), LAMBDA c1 :
    Then(expression(c1), LAMBDA c :
    Then(consume(c, ",", "Expect ',' after condition."), LAMBDA c2 :
    Then(expression(c2), LAMBDA n :
    Then(blockStatement(n), LAMBDA b :
        [b EXCEPT !.node = [type |-> "ForStmt", initializer |-> i.node,
                            condition |-> c.node, increment |-> n.node,
                            body |-> b.node]]))))))

statement(ps) ==
    IF MatchAny(ps, {"IPAKITA"}) THEN printStatement(advance(ps))
    ELSE IF MatchAny(ps, {"MUGNA"}) THEN varDeclaration(advance(ps))
    ELSE IF MatchAny(ps, {"KUNG"}) THEN ifStatement(advance(ps))
    ELSE IF MatchAny(ps, {"ALANG SA"}) THEN forStatement(advance(ps))
    ELSE IF MatchAny(ps, {"PUNDOK"}) THEN blockStatement(advance(ps))
    ELSE expressionStatement(ps)

\* catch (error) { this.synchronize(); throw error }
recover(d) ==
    IF Failed(d) THEN [synchronize([d EXCEPT !.error = ""]) EXCEPT !.error = d.error]
    ELSE d

declaration(ps) ==
    recover(IF MatchAny(ps, {"MUGNA"}) THEN varDeclaration(advance(ps))
            ELSE statement(ps))

\* parse(): nodes holds the statements unless it threw
parse(tokens) ==
    Then(consume(NewParser(tokens), "SUGOD", "Expect 'SUGOD' at start of program."),
         LAMBDA s : Then(declarations(s, "KATAPUSAN"),
                         LAMBDA body : consume(body, "KATAPUSAN",
                                           "Expect 'KATAPUSAN' at end of program.")))

(***************************************************************************)
(* The driver (BisayaInterpreter.run): scan, parse, interpret on the       *)
(* driver's one Interpreter, print the output or the error.                *)
(***************************************************************************)
\* output.trim() is not empty
TrimNonEmpty(cs) == \E i \in 1..Len(cs) : cs[i] \notin JsWhitespace

\* the catch clause of run after the scanner or the parser threw: the
\* interpreter is not called.  stages lists the stages that were invoked,
\* tokens what the scanner handed over (observations, as is nodes below)
caught(self, name, message, console, label, stages, tokens) ==
    [environment |-> self.environment, output |-> self.output,
     error |-> name, message |-> message,
     returned |-> <<>>, printed |-> <<>>, errDepth |-> 0,
     stdout |-> <<>>, stderr |-> Append(console, label \o message),
     stages |-> stages, tokens |-> tokens, nodes |-> <<>>]

\* const output = interpret(statements); if (output && output.trim())
\* console.log(output), or the catch clause after interpret threw
afterInterpret(r, ps) ==
    [environment |-> r.environment, output |-> r.output,
     error |-> r.thrown, message |-> r.message,
     returned |-> r.returned, printed |-> r.printed, errDepth |-> r.errDepth,
     stdout |-> IF r.thrown = "" /\ TrimNonEmpty(r.returned)
                THEN <<r.returned>> ELSE <<>>,
     stderr |-> IF r.thrown = "RuntimeError"
                THEN <<"Runtime error: " \o r.message>>
                ELSE IF r.thrown = "Error" THEN <<"Error: " \o r.message>>
                ELSE <<>>,
     stages |-> <<"scan", "parse", "interpret">>,
     tokens |-> ps.tokens, nodes |-> ps.nodes]

\* afterParse as it would be if the statements parsed before the error were
\* handed to the interpreter
afterParseKeepGoing(ps, self) == afterInterpret(interpret(ps.nodes, self), ps)

afterParse(ps, self) ==
    IF Failed(ps)
    THEN caught(self, "ParseError", ps.error, ps.console, "Parse error: ",
                <<"scan", "parse">>, ps.tokens)
    ELSE afterInterpret(interpret(ps.nodes, self), ps)

afterScan(lx, self) ==
    IF lx.error # ""
    THEN caught(self, "Error", lx.error, <<>>, "Error: ", <<"scan">>, lx.tokens)
    ELSE afterParse(parse(lx.tokens), self)

\* run(source) on the instance `self`: the instance after the call, the
\* error that ended it (error: "" when none did), what console.log received
\* (stdout) and the lines console.error received (stderr)
run(source, self) == afterScan(scanTokens(source), self)

(***************************************************************************)
(* The source texts given to the driver.                                   *)
(***************************************************************************)
\* three integers with one initializer, printed
\*     SUGOD
\*     MUGNA NUMERO x, y, z=5
\*     IPAKITA: x & y & z
\*     KATAPUSAN
SrcDeclare ==
    <<"S", "U", "G", "O", "D", "\n", "M", "U", "G", "N", "A", " ", "N", "U",
      "M", "E", "R", "O", " ", "x", ",", " ", "y", ",", " ", "z", "=", "5",
      "\n", "I", "P", "A", "K", "I", "T", "A", ":", " ", "x", " ", "&", " ",
      "y", " ", "&", " ", "z", "\n", "K", "A", "T", "A", "P", "U", "S", "A",
      "N", "\n">>

\* reads x without declaring it
\*     SUGOD
\*     IPAKITA: x
\*     KATAPUSAN
SrcRead ==
    <<"S", "U", "G", "O", "D", "\n", "I", "P", "A", "K", "I", "T", "A", ":",
      " ", "x", "\n", "K", "A", "T", "A", "P", "U", "S", "A", "N", "\n">>

\* reads x of the enclosing frame inside a block
\*     SUGOD
\*     MUGNA NUMERO x=1
\*     PUNDOK{
\*     IPAKITA: x
\*     }
\*     KATAPUSAN
SrcBlock ==
    <<"S", "U", "G", "O", "D", "\n", "M", "U", "G", "N", "A", " ", "N", "U",
      "M", "E", "R", "O", " ", "x", "=", "1", "\n", "P", "U", "N", "D", "O",
      "K", "{", "\n", "I", "P", "A", "K", "I", "T", "A", ":", " ", "x", "\n",
      "}", "\n", "K", "A", "T", "A", "P", "U", "S", "A", "N", "\n">>

\* the counting loop: for i = 1 while i <= 3, print i, i = i + 1
\*     SUGOD
\*     MUGNA NUMERO i
\*     ALANG SA i=1, i<=3, i=i+1 {
\*     IPAKITA: i
\*     }
\*     KATAPUSAN
SrcFor ==
    <<"S", "U", "G", "O", "D", "\n", "M", "U", "G", "N", "A", " ", "N", "U",
      "M", "E", "R", "O", " ", "i", "\n", "A", "L", "A", "N", "G", " ", "S",
      "A", " ", "i", "=", "1", ",", " ", "i", "<", "=", "3", ",", " ", "i",
      "=", "i", "+", "1", " ", "{", "\n", "I", "P", "A", "K", "I", "T", "A",
      ":", " ", "i", "\n", "}", "\n", "K", "A", "T", "A", "P", "U", "S", "A",
      "N", "\n">>

\* the counting loop, clauses in parentheses and a PUNDOK body
\*     SUGOD
\*     MUGNA NUMERO i
\*     ALANG SA (i=1, i<=3, i=i+1)
\*     PUNDOK{
\*     IPAKITA: i
\*     }
\*     KATAPUSAN
SrcForParen ==
    <<"S", "U", "G", "O", "D", "\n", "M", "U", "G", "N", "A", " ", "N", "U",
      "M", "E", "R", "O", " ", "i", "\n", "A", "L", "A", "N", "G", " ", "S",
      "A", " ", "(", "i", "=", "1", ",", " ", "i", "<", "=", "3", ",", " ",
      "i", "=", "i", "+", "1", ")", "\n", "P", "U", "N", "D", "O", "K", "{",
      "\n", "I", "P", "A", "K", "I", "T", "A", ":", " ", "i", "\n", "}",
      "\n", "K", "A", "T", "A", "P", "U", "S", "A", "N", "\n">>

\* prints at top level and in a block, with a comment
\*     SUGOD
\*     IPAKITA: "a" & 1
\*     PUNDOK{
\*     IPAKITA: 'b'
\*     }
\*     -- no output here
\*     IPAKITA: 23
\*     KATAPUSAN
SrcPrints ==
    <<"S", "U", "G", "O", "D", "\n", "I", "P", "A", "K", "I", "T", "A", ":",
      " ", "\"", "a", "\"", " ", "&", " ", "1", "\n", "P", "U", "N", "D",
      "O", "K", "{", "\n", "I", "P", "A", "K", "I", "T", "A", ":", " ", "'",
      "b", "'", "\n", "}", "\n", "-", "-", " ", "n", "o", " ", "o", "u", "t",
      "p", "u", "t", " ", "h", "e", "r", "e", "\n", "I", "P", "A", "K", "I",
      "T", "A", ":", " ", "2", "3", "\n", "K", "A", "T", "A", "P", "U", "S",
      "A", "N", "\n">>

\* a character the scanner rejects, after a print
\*     SUGOD
\*     IPAKITA: "a"
\*     IPAKITA: 1 % 2
\*     KATAPUSAN
SrcBadChar ==
    <<"S", "U", "G", "O", "D", "\n", "I", "P", "A", "K", "I", "T", "A", ":",
      " ", "\"", "a", "\"", "\n", "I", "P", "A", "K", "I", "T", "A", ":",
      " ", "1", " ", "%", " ", "2", "\n", "K", "A", "T", "A", "P", "U", "S",
      "A", "N", "\n">>

\* no KATAPUSAN
\*     SUGOD
\*     MUGNA NUMERO y=2
\*     IPAKITA: y
SrcNoEnd ==
    <<"S", "U", "G", "O", "D", "\n", "M", "U", "G", "N", "A", " ", "N", "U",
      "M", "E", "R", "O", " ", "y", "=", "2", "\n", "I", "P", "A", "K", "I",
      "T", "A", ":", " ", "y", "\n">>

\* a conditional on the text "DILI" with an else branch
\*     SUGOD
\*     KUNG "DILI" {
\*     IPAKITA: "t"
\*     } KUNG DILI {
\*     IPAKITA: "e"
\*     }
\*     KATAPUSAN
SrcIfElse ==
    <<"S", "U", "G", "O", "D", "\n", "K", "U", "N", "G", " ", "\"", "D",
      "I", "L", "I", "\"", " ", "{", "\n", "I", "P", "A", "K", "I", "T",
      "A", ":", " ", "\"", "t", "\"", "\n", "}", " ", "K", "U", "N", "G",
      " ", "D", "I", "L", "I", " ", "{", "\n", "I", "P", "A", "K", "I", "T",
      "A", ":", " ", "\"", "e", "\"", "\n", "}", "\n", "K", "A", "T", "A",
      "P", "U", "S", "A", "N", "\n">>

\* the same conditional, its second branch opened by KUNG WALA
\*     SUGOD
\*     KUNG "DILI" {
\*     IPAKITA: "t"
\*     } KUNG WALA {
\*     IPAKITA: "e"
\*     }
\*     KATAPUSAN
SrcIfWala ==
    <<"S", "U", "G", "O", "D", "\n", "K", "U", "N", "G", " ", "\"", "D",
      "I", "L", "I", "\"", " ", "{", "\n", "I", "P", "A", "K", "I", "T",
      "A", ":", " ", "\"", "t", "\"", "\n", "}", " ", "K", "U", "N", "G",
      " ", "W", "A", "L", "A", " ", "{", "\n", "I", "P", "A", "K", "I", "T",
      "A", ":", " ", "\"", "e", "\"", "\n", "}", "\n", "K", "A", "T", "A",
      "P", "U", "S", "A", "N", "\n">>

\* a chained assignment
\*     SUGOD
\*     MUGNA NUMERO x, y, z=5
\*     x=y=4
\*     IPAKITA: x & z
\*     KATAPUSAN
SrcChain ==
    <<"S", "U", "G", "O", "D", "\n", "M", "U", "G", "N", "A", " ", "N", "U",
      "M", "E", "R", "O", " ", "x", ",", " ", "y", ",", " ", "z", "=", "5",
      "\n", "x", "=", "y", "=", "4", "\n", "I", "P", "A", "K", "I", "T",
      "A", ":", " ", "x", " ", "&", " ", "z", "\n", "K", "A", "T", "A", "P",
      "U", "S", "A", "N", "\n">>

\* a sum and a product
\*     SUGOD
\*     IPAKITA: 1 + 2 * 3
\*     KATAPUSAN
SrcArith ==
    <<"S", "U", "G", "O", "D", "\n", "I", "P", "A", "K", "I", "T", "A", ":",
      " ", "1", " ", "+", " ", "2", " ", "*", " ", "3", "\n", "K", "A", "T",
      "A", "P", "U", "S", "A", "N", "\n">>

\* one operator of every precedence level
\*     SUGOD
\*     IPAKITA: -1 * 2 + 3 < 4 == 5
\*     KATAPUSAN
SrcPrecedence ==
    <<"S", "U", "G", "O", "D", "\n", "I", "P", "A", "K", "I", "T", "A", ":",
      " ", "-", "1", " ", "*", " ", "2", " ", "+", " ", "3", " ", "<", " ",
      "4", " ", "=", "=", " ", "5", "\n", "K", "A", "T", "A", "P", "U", "S",
      "A", "N", "\n">>

\* declarations with a literal where the type keyword belongs
\*     SUGOD
\*     MUGNA 5 x
\*     MUGNA 'c' y
\*     MUGNA "s" z
\*     MUGNA 1.5 w
\*     IPAKITA: x & y & z & w
\*     KATAPUSAN
SrcDeclLiteral ==
    <<"S", "U", "G", "O", "D", "\n", "M", "U", "G", "N", "A", " ", "5", " ",
      "x", "\n", "M", "U", "G", "N", "A", " ", "'", "c", "'", " ", "y",
      "\n", "M", "U", "G", "N", "A", " ", "\"", "s", "\"", " ", "z", "\n",
      "M", "U", "G", "N", "A", " ", "1", ".", "5", " ", "w", "\n", "I", "P",
      "A", "K", "I", "T", "A", ":", " ", "x", " ", "&", " ", "y", " ", "&",
      " ", "z", " ", "&", " ", "w", "\n", "K", "A", "T", "A", "P", "U", "S",
      "A", "N", "\n">>

\* a print, then a read of q, which nothing declares
\*     SUGOD
\*     IPAKITA: "a"
\*     IPAKITA: q
\*     KATAPUSAN
SrcPrintThenFail ==
    <<"S", "U", "G", "O", "D", "\n", "I", "P", "A", "K", "I", "T", "A", ":",
      " ", "\"", "a", "\"", "\n", "I", "P", "A", "K", "I", "T", "A", ":",
      " ", "q", "\n", "K", "A", "T", "A", "P", "U", "S", "A", "N", "\n">>

\* the sample program of the README
\*     SUGOD
\*     MUGNA NUMERO x, y, z=5
\*     MUGNA LETRA a_1='n'
\*     MUGNA TINUOD t="OO"
\*     x=y=4
\*     a_1='c' -- this is a comment
\*     IPAKITA: x & t & z & $ & a_1 & [#] & "last"
\*     KATAPUSAN
SrcSample ==
    <<"S", "U", "G", "O", "D", "\n", "M", "U", "G", "N", "A", " ", "N", "U",
      "M", "E", "R", "O", " ", "x", ",", " ", "y", ",", " ", "z", "=", "5",
      "\n", "M", "U", "G", "N", "A", " ", "L", "E", "T", "R", "A", " ", "a",
      "_", "1", "=", "'", "n", "'", "\n", "M", "U", "G", "N", "A", " ", "T",
      "I", "N", "U", "O", "D", " ", "t", "=", "\"", "O", "O", "\"", "\n",
      "x", "=", "y", "=", "4", "\n", "a", "_", "1", "=", "'", "c", "'", " ",
      "-", "-", " ", "t", "h", "i", "s", " ", "i", "s", " ", "a", " ", "c",
      "o", "m", "m", "e", "n", "t", "\n", "I", "P", "A", "K", "I", "T", "A",
      ":", " ", "x", " ", "&", " ", "t", " ", "&", " ", "z", " ", "&", " ",
      "$", " ", "&", " ", "a", "_", "1", " ", "&", " ", "[", "#", "]", " ",
      "&", " ", "\"", "l", "a", "s", "t", "\"", "\n", "K", "A", "T", "A",
      "P", "U", "S", "A", "N", "\n">>

\* an escape code in brackets
\*     SUGOD
\*     IPAKITA: [#]
\*     KATAPUSAN
SrcEscape ==
    <<"S", "U", "G", "O", "D", "\n", "I", "P", "A", "K", "I", "T", "A", ":",
      " ", "[", "#", "]", "\n", "K", "A", "T", "A", "P", "U", "S", "A", "N",
      "\n">>

SourceIds ==
    {"SrcDeclare", "SrcRead", "SrcBlock", "SrcFor",
     "SrcForParen", "SrcPrints", "SrcBadChar", "SrcNoEnd",
     "SrcIfElse", "SrcIfWala", "SrcChain", "SrcArith",
     "SrcPrecedence", "SrcDeclLiteral", "SrcPrintThenFail", "SrcSample",
     "SrcEscape"}

Source(id) ==
    CASE id = "SrcDeclare" -> SrcDeclare
      [] id = "SrcRead" -> SrcRead
      [] id = "SrcBlock" -> SrcBlock
      [] id = "SrcFor" -> SrcFor
      [] id = "SrcForParen" -> SrcForParen
      [] id = "SrcPrints" -> SrcPrints
      [] id = "SrcBadChar" -> SrcBadChar
      [] id = "SrcNoEnd" -> SrcNoEnd
      [] id = "SrcIfElse" -> SrcIfElse
      [] id = "SrcIfWala" -> SrcIfWala
      [] id = "SrcChain" -> SrcChain
      [] id = "SrcArith" -> SrcArith
      [] id = "SrcPrecedence" -> SrcPrecedence
      [] id = "SrcDeclLiteral" -> SrcDeclLiteral
      [] id = "SrcPrintThenFail" -> SrcPrintThenFail
      [] id = "SrcSample" -> SrcSample
      [] id = "SrcEscape" -> SrcEscape

(***************************************************************************)
(* The statement sequences given to Interpreter.interpret directly, built  *)
(* as the parser builds its nodes.  An input is a record [fam, name, type, *)
(* depth, count, variant] that Program turns into the statements.          *)
(***************************************************************************)
\* calls made on one interpreter instance
MaxCalls == 2
\* the bound of the counting loops
LoopTo == 3

NameSeq == <<"x", "y", "z", "w", "v">>

Tok(type, lexeme) == Token(type, lexeme, VNull, 0, 0)

Lit(v) == [type |-> "LiteralExpr", value |-> v]

Var(n) == [type |-> "VariableExpr", name |-> Tok("IDENTIFIER", n)]

Assign(n, e) == [type |-> "AssignExpr", name |-> Tok("IDENTIFIER", n), value |-> e]

Bin(op, l, r) ==
    [type |-> "BinaryExpr", left |-> l, operator |-> Tok(op, op), right |-> r]

Neg(e) == [type |-> "UnaryExpr", operator |-> Tok("-", "-"), right |-> e]

PrintOf(e) == [type |-> "PrintStmt", value |-> e]

Block(stmts) == [type |-> "BlockStmt", statements |-> stmts]

Names(from, to) == [i \in 1..(to - from + 1) |-> Tok("IDENTIFIER", NameSeq[from + i - 1])]

VarDecl(t, names) == [type |-> "VarDeclStmt", varType |-> Tok(t, t), names |-> names]

VarDeclInit(t, names, e) == VarDecl(t, names) @@ [initializer |-> e]

IfElse(c, t, e) ==
    [type |-> "IfStmt", condition |-> c, thenBranch |-> t, elseBranch |-> e]

For(i, c, n, b) ==
    [type |-> "ForStmt", initializer |-> i, condition |-> c, increment |-> n,
     body |-> b]

RECURSIVE Nest(_, _)
\* the statements inside d nested blocks
Nest(d, stmts) == IF d = 0 THEN stmts ELSE <<Block(Nest(d - 1, stmts))>>

Input(fam, name, type, depth, count, variant) ==
    [fam |-> fam, name |-> name, type |-> type, depth |-> depth,
     count |-> count, variant |-> variant]

NoInput == Input("", "", "", 0, 0, "")

\* MUGNA <type> n1, ..., nk  with no initializer, with the initializer 5, or
\* (names from the second on) with the initializer x = -x
DeclInputs ==
    {Input("Decl", "", t, 0, k, "none") :
        t \in TypeKeywords \cup {"IDENTIFIER"}, k \in 1..MaxNames}
    \cup {Input("Decl", "", t, 0, k, "lit") : t \in {"NUMERO", "TIPIK"}, k \in 1..MaxNames}
    \cup {Input("Decl", "", "NUMERO", 0, k, "neg") : k \in 1..MaxNames}

\* IPAKITA: x inside d blocks
ReadInputs == {Input("Read", "x", "", d, 0, "") : d \in 0..MaxDepth}

\* x = 2 inside d blocks, then IPAKITA: x
AssignInputs == {Input("Assign", "x", "", d, 0, "") : d \in 0..MaxDepth}

\* MUGNA NUMERO x = 1 and IPAKITA: x inside d blocks, then IPAKITA: x or x = 2
DeclInInputs ==
    {Input("DeclIn", "x", "NUMERO", d, 0, v) : d \in 1..MaxDepth, v \in {"read", "assign"}}

\* IPAKITA: "a", IPAKITA: 10 / 0 (or 10 / x), IPAKITA: "b", MUGNA NUMERO y
DivInputs == {Input("Div", "x", "", 0, 0, v) : v \in {"lit", "var"}}

\* MUGNA NUMERO i, then for (i = 1; i <= n; i = i + 1) { IPAKITA: "z" (or i) }
LoopInputs ==
    {Input("Loop", "i", "", 0, n, v) : n \in {0, LoopTo}, v \in {"lit", "var"}}

\* prints at the top level, in blocks and in the branch of a conditional
MixedInputs == {Input("Mixed", "", "", 0, 0, "")}

\* IPAKITA: y = z = (x = -x)
ChainInputs == {Input("Chain", "x", "", 0, 0, "")}

Inputs ==
    DeclInputs \cup ReadInputs \cup AssignInputs \cup DeclInInputs
        \cup DivInputs \cup LoopInputs \cup MixedInputs \cup ChainInputs

SourceInputs == {Input("Source", id, "", 0, 0, "") : id \in SourceIds}

Program(in) ==
    CASE in.fam = "Decl" /\ in.variant = "none" ->
            <<VarDecl(in.type, Names(1, in.count))>>
      [] in.fam = "Decl" /\ in.variant = "lit" ->
            <<VarDeclInit(in.type, Names(1, in.count), Lit(VNum(5)))>>
      [] in.fam = "Decl" /\ in.variant = "neg" ->
            <<VarDeclInit(in.type, Names(2, in.count + 1),
                          Assign("x", Neg(Var("x"))))>>
      [] in.fam = "Read" -> Nest(in.depth, <<PrintOf(Var(in.name))>>)
      [] in.fam = "Assign" ->
            Nest(in.depth, <<Assign(in.name, Lit(VNum(2)))>>)
                \o <<PrintOf(Var(in.name))>>
      [] in.fam = "DeclIn" ->
            Nest(in.depth, <<VarDeclInit(in.type, <<Tok("IDENTIFIER", in.name)>>,
                                         Lit(VNum(1))),
                             PrintOf(Var(in.name))>>)
                \o <<IF in.variant = "read" THEN PrintOf(Var(in.name))
                     ELSE Assign(in.name, Lit(VNum(2)))>>
      [] in.fam = "Div" ->
            <<PrintOf(Lit(VStr(<<"a">>))),
              PrintOf(Bin("/", Lit(VNum(10)),
                          IF in.variant = "lit" THEN Lit(VNum(0)) ELSE Var(in.name))),
              PrintOf(Lit(VStr(<<"b">>))),
              VarDecl("NUMERO", Names(2, 2))>>
      [] in.fam = "Loop" ->
            <<VarDecl("NUMERO", <<Tok("IDENTIFIER", in.name)>>),
              For(Assign(in.name, Lit(VNum(1))),
                  Bin("<=", Var(in.name), Lit(VNum(in.count))),
                  Assign(in.name, Bin("+", Var(in.name), Lit(VNum(1)))),
                  Block(<<PrintOf(IF in.variant = "lit" THEN Lit(VStr(<<"z">>))
                                  ELSE Var(in.name))>>))>>
      [] in.fam = "Mixed" ->
            <<PrintOf(Bin("&", Lit(VStr(<<"a">>)), Lit(VNum(1)))),
              Block(<<PrintOf(Lit(VStr(<<"$">>))),
                      Block(<<PrintOf(Lit(VBool(TRUE)))>>)>>),
              IfElse(Lit(VBool(FALSE)),
                     Block(<<PrintOf(Lit(VStr(<<"t">>)))>>),
                     Block(<<PrintOf(Lit(VStr(<<"e">>)))>>)),
              PrintOf(Lit(VNull))>>
      [] in.fam = "Chain" ->
            <<PrintOf(Assign("y", Assign("z", Assign(in.name,
                                                      Neg(Var(in.name))))))>>

(***************************************************************************)
(* The state machine: one BisayaInterpreter, whose Interpreter is called   *)
(* again and again, by the driver's run or directly through interpret.     *)
(***************************************************************************)
VARIABLES
    environment,    \* Interpreter.environment: the frame chain, root first
    output,         \* Interpreter.output
    calls,          \* the calls made so far
    last            \* the last call: its input, the environment and output it
                    \* started from and what the caller observed

vars == <<environment, output, calls, last>>

Self == [environment |-> environment, output |-> output]

Init ==
    /\ environment = NewEnvironment
    /\ output = <<>>
    /\ calls = 0
    /\ last = [op |-> "none", input |-> NoInput, pre |-> NewEnvironment,
               preOutput |-> <<>>,
               error |-> "", message |-> "", returned |-> <<>>,
               printed |-> <<>>, errDepth |-> 0,
               stdout |-> <<>>, stderr |-> <<>>,
               stages |-> <<>>, tokens |-> <<>>, nodes |-> <<>>]

\* the instance and the caller's observation after a call that ended as r
Called(op, in, r) ==
    /\ environment' = r.environment
    /\ output' = r.output
    /\ last' = [op |-> op, input |-> in, pre |-> environment,
                preOutput |-> output,
                error |-> r.error, message |-> r.message,
                returned |-> r.returned, printed |-> r.printed,
                errDepth |-> r.errDepth,
                stdout |-> r.stdout, stderr |-> r.stderr,
                stages |-> r.stages, tokens |-> r.tokens, nodes |-> r.nodes]
    /\ calls' = calls + 1

\* what a direct caller of interpret observes: nothing is written to the console
direct(r) ==
    [environment |-> r.environment, output |-> r.output, error |-> r.thrown,
     message |-> r.message, returned |-> r.returned, printed |-> r.printed,
     errDepth |-> r.errDepth, stdout |-> <<>>, stderr |-> <<>>,
     stages |-> <<"interpret">>, tokens |-> <<>>, nodes |-> <<>>]

\* interpreter.interpret(statements), called on the instance
Interpret(in) ==
    /\ calls < MaxCalls
    /\ Called("interpret", in, direct(interpret(Program(in), Self)))

\* BisayaInterpreter.run(source)
Run(in) ==
    /\ calls < MaxCalls
    /\ Called("run", in, run(Source(in.name), Self))

Next ==
    \/ \E in \in Inputs : Interpret(in)
    \/ \E in \in SourceInputs : Run(in)

Spec == Init /\ [][Next]_vars

(***************************************************************************)
(* The properties checked of the state machine.  They are stated on the    *)
(* last call: the statements or source text it was given (last.input), the *)
(* instance it started from (last.pre, last.preOutput), what its caller    *)
(* observed, and the instance it left (environment, output).               *)
(***************************************************************************)
\* the root frame defines name
Has(env, name) == name \in DOMAIN env[1]

\* the root frame binds name to a variable of this type and value
Holds(env, name, type, value) ==
    Has(env, name) /\ env[1][name] = Variable(type, value)

RECURSIVE Concat(_)
\* the texts of a sequence joined, nothing between them
Concat(texts) == IF Len(texts) = 0 THEN <<>> ELSE Head(texts) \o Concat(Tail(texts))

\* an instance as the constructors leave it
NewInstance == [environment |-> NewEnvironment, output |-> <<>>]

Interpreted(fam) == last.op = "interpret" /\ last.input.fam = fam

Ran(id) == last.op = "run" /\ last.input.name = id

UndefinedX ==
    last.error = "RuntimeError" /\ last.message = "Undefined variable: x"

\* C1: a name declared in an enclosing frame can be read inside a nested
\* block at every depth without error, and an assignment made to it inside
\* the block changes the enclosing frame's variable, the new value being the
\* one read after the block.  (The claim as stated; the code looks a name up
\* in the current frame's map alone, so this is violated.)
C1_ChainLookup ==
    /\ (Interpreted("Read") /\ Has(last.pre, "x"))
          => /\ last.error = ""
             /\ last.printed = <<stringify(last.pre[1]["x"].value)>>
    /\ (Interpreted("Assign") /\ Has(last.pre, "x"))
          => /\ last.error = ""
             /\ Has(environment, "x") /\ environment[1]["x"].value = VNum(2)
             /\ last.printed = <<<<"2">>>>
    /\ Ran("SrcBlock") => last.error = "" /\ last.stdout = <<<<"1">>>>

\* C2: every call starts from a fresh root frame: what a call returns or
\* throws is what it would return or throw on a new instance, whatever the
\* calls made before it on the same instance declared or assigned.  (The
\* claim as stated; the Interpreter's environment is built by the
\* constructor and kept from call to call, so this is violated.)
C2_FreshRootPerRun ==
    /\ last.op = "run" =>
          LET fresh == run(Source(last.input.name), NewInstance)
          IN  /\ last.error = fresh.error /\ last.message = fresh.message
              /\ last.stdout = fresh.stdout /\ last.stderr = fresh.stderr
    /\ last.op = "interpret" =>
          LET fresh == interpret(Program(last.input), NewInstance)
          IN  /\ last.error = fresh.thrown /\ last.message = fresh.message
              /\ last.returned = fresh.returned

\* C3: a declaration inside a block binds in the block's frame only.  With
\* MUGNA NUMERO x = 1 and IPAKITA: x inside the blocks, the inner print shows
\* 1 and the root frame keeps its names; after the blocks, when no enclosing
\* x exists, reading or assigning x raises the undefined-variable
\* RuntimeError and the instance is as before the call, and when the root
\* frame has an x, a read shows the value that x had before the call and an
\* assignment changes that x and nothing else.
C3_BlockLocalDeclaration ==
    Interpreted("DeclIn") =>
        /\ Len(last.printed) >= 1 /\ last.printed[1] = <<"1">>
        /\ DOMAIN environment[1] = DOMAIN last.pre[1]
        /\ ~Has(last.pre, "x") =>
              /\ UndefinedX /\ last.errDepth = 1
              /\ environment = last.pre
        /\ (Has(last.pre, "x") /\ last.input.variant = "read") =>
              /\ last.error = ""
              /\ last.printed = <<<<"1">>, stringify(last.pre[1]["x"].value)>>
              /\ environment = last.pre
        /\ (Has(last.pre, "x") /\ last.input.variant = "assign") =>
              /\ last.error = ""
              /\ environment = [last.pre EXCEPT ![1]["x"].value = VNum(2)]

\* C3 witness: x declared inside two nested blocks while the root frame has
\* an x of another value, read after the blocks
C3_Witness ==
    /\ Interpreted("DeclIn") /\ last.input.depth = MaxDepth
    /\ last.input.variant = "read"
    /\ Has(last.pre, "x") /\ last.pre[1]["x"].value = VNum(5)
    /\ last.printed = <<<<"1">>, <<"5">>>>

\* C4: whenever interpret returns or throws, the current frame is the root
\* frame: the chain is one frame long after every call, also when a
\* RuntimeError was raised inside blocks at any depth, and a call whose
\* statements all lie inside a block that throws leaves the instance's
\* frames as they were.
C4_FrameRestored ==
    /\ Len(environment) = 1
    /\ (last.op = "interpret" /\ last.input.fam \in {"Read", "Assign"}
            /\ last.input.depth >= 1 /\ last.error # "")
          => environment = last.pre
    /\ Ran("SrcBlock") => environment = [last.pre EXCEPT ![1] =
                              ("x" :> Variable("NUMERO", VNum(1))) @@ @]

\* C4 witness: a RuntimeError raised inside the innermost of the nested
\* blocks, the root frame holding variables
C4_Witness ==
    /\ Interpreted("Read") /\ last.input.depth = MaxDepth
    /\ last.error = "RuntimeError" /\ last.errDepth = MaxDepth + 1
    /\ Has(environment, "x")

\* C5: a declaration with several names and one initializer evaluates the
\* initializer once and binds its value to every name.  With the initializer
\* 5 every name holds 5; with the initializer x = -x (x holding v) x holds -v
\* afterwards, negated once, and every declared name holds -v; through the
\* pipeline, MUGNA NUMERO x, y, z=5 then IPAKITA: x & y & z prints 555.
C5_SharedInitializer ==
    /\ (Interpreted("Decl") /\ last.input.variant = "lit") =>
          /\ last.error = ""
          /\ \A i \in 1..last.input.count :
                Holds(environment, NameSeq[i], last.input.type, VNum(5))
    /\ (Interpreted("Decl") /\ last.input.variant = "neg" /\ Has(last.pre, "x")) =>
          /\ last.error = ""
          /\ Has(environment, "x")
          /\ environment[1]["x"].value = JsNeg(last.pre[1]["x"].value)
          /\ \A i \in 2..(last.input.count + 1) :
                Holds(environment, NameSeq[i], "NUMERO",
                      JsNeg(last.pre[1]["x"].value))
    /\ Ran("SrcDeclare") => last.error = "" /\ last.stdout = <<<<"5", "5", "5">>>>

\* C5 witness: MaxNames names declared with the initializer x = -x, x
\* holding 5 before
C5_Witness ==
    /\ Interpreted("Decl") /\ last.input.variant = "neg"
    /\ last.input.count = MaxNames
    /\ Has(last.pre, "x") /\ last.pre[1]["x"].value = VNum(5)
    /\ environment[1]["x"].value = VNum(0 - 5)

\* C6: a declaration without initializer binds every name to the zero value
\* of the declared type: the number 0 for NUMERO and for TIPIK, the null
\* character for LETRA, false for TINUOD; any other declared type raises the
\* RuntimeError "Invalid type: ..." and the instance is as before the call.
C6_ZeroValues ==
    (Interpreted("Decl") /\ last.input.variant = "none") =>
        /\ last.input.type \in {"NUMERO", "TIPIK"} =>
              /\ last.error = ""
              /\ \A i \in 1..last.input.count :
                    Holds(environment, NameSeq[i], last.input.type, VNum(0))
        /\ last.input.type = "LETRA" =>
              /\ last.error = ""
              /\ \A i \in 1..last.input.count :
                    Holds(environment, NameSeq[i], "LETRA", VStr(<<NUL>>))
        /\ last.input.type = "TINUOD" =>
              /\ last.error = ""
              /\ \A i \in 1..last.input.count :
                    Holds(environment, NameSeq[i], "TINUOD", VBool(FALSE))
        /\ last.input.type \notin TypeKeywords =>
              /\ last.error = "RuntimeError"
              /\ last.message = "Invalid type: " \o last.input.type
              /\ environment = last.pre

\* C6 witness: MaxNames characters declared without initializer on an
\* instance that held none of them
C6_Witness ==
    /\ Interpreted("Decl") /\ last.input.variant = "none"
    /\ last.input.type = "LETRA" /\ last.input.count = MaxNames
    /\ last.pre = NewEnvironment
    /\ Holds(environment, NameSeq[MaxNames], "LETRA", VStr(<<NUL>>))

\* C7: a division whose right operand evaluates to the number 0 (the literal
\* 0, or a NUMERO or TIPIK variable holding its zero value) raises the
\* RuntimeError "Division by zero": of IPAKITA: "a", IPAKITA: 10 / <zero>,
\* IPAKITA: "b", MUGNA NUMERO y only the first print appends to the output,
\* nothing is returned and the declaration after it is not executed.
C7_DivisionByZero ==
    (Interpreted("Div")
        /\ \/ last.input.variant = "lit"
           \/ Has(last.pre, "x") /\ last.pre[1]["x"].value = VNum(0))
    => /\ last.error = "RuntimeError" /\ last.message = "Division by zero"
       /\ last.printed = <<<<"a">>>>
       /\ output = <<"a">>
       /\ last.returned = <<>>
       /\ environment = last.pre

\* C7 witness: the divisor is a variable holding the zero of TIPIK, and y is
\* not declared when the call starts
C7_Witness ==
    /\ Interpreted("Div") /\ last.input.variant = "var"
    /\ Holds(last.pre, "x", "TIPIK", VNum(0))
    /\ ~Has(last.pre, "y")
    /\ last.message = "Division by zero"

\* C8: reading or assigning a name that no frame of the chain defines, at the
\* top level or inside blocks, raises the RuntimeError "Undefined variable:
\* <name>"; nothing is printed, no variable is created and no variable
\* changes: the instance's frames are as before the call.
C8_UndefinedVariable ==
    /\ (last.op = "interpret" /\ last.input.fam \in {"Read", "Assign"}
            /\ ~Has(last.pre, "x"))
          => /\ UndefinedX
             /\ last.errDepth = last.input.depth + 1
             /\ last.printed = <<>>
             /\ environment = last.pre
    /\ (Ran("SrcRead") /\ ~Has(last.pre, "x"))
          => /\ UndefinedX
             /\ last.stderr = <<"Runtime error: Undefined variable: x">>
             /\ last.stdout = <<>>
             /\ environment = last.pre

\* C8 witness: x = 2 at the top level of an instance that defines i and no x
C8_Witness ==
    /\ Interpreted("Assign") /\ last.input.depth = 0
    /\ Has(last.pre, "i") /\ ~Has(last.pre, "x")
    /\ UndefinedX

\* C9: the text a successful call returns is the display texts of the print
\* statements it executed, in execution order with nothing between them: the
\* empty text when it executed none, and never with text of an earlier call
\* before it.  The instance's output field is that same text, also after a
\* call that threw.  Two fixed programs give their texts: a1 newline OO e
\* wala, and a1b23 through the pipeline.
C9_OutputIsPrintsInOrder ==
    /\ last.op = "interpret" => output = Concat(last.printed)
    /\ (last.op # "none" /\ last.error = "") => last.returned = Concat(last.printed)
    /\ (Interpreted("Decl") /\ last.error = "") => last.returned = <<>>
    /\ Interpreted("Mixed") =>
          /\ last.error = ""
          /\ last.printed = <<<<"a", "1">>, <<"\n">>, <<"O", "O">>, <<"e">>,
                              <<"w", "a", "l", "a">>>>
          /\ last.returned = <<"a", "1", "\n", "O", "O", "e", "w", "a", "l", "a">>
    /\ Ran("SrcPrints") =>
          /\ last.error = ""
          /\ last.stdout = <<<<"a", "1", "b", "2", "3">>>>

\* C9 witness: a call that executed several prints on an instance whose
\* output field held the text of an earlier call
C9_Witness ==
    /\ Interpreted("Mixed")
    /\ last.preOutput # <<>>
    /\ Len(last.printed) = 5
    /\ last.returned = Concat(last.printed)

\* C10: through the whole pipeline, the program whose for loop sets the
\* declared counter to 1, continues while it is <= 3, prints it and adds 1
\* prints 123.  (The claim as stated, for the clauses written bare and in
\* parentheses; the parser's expression rule reaches no comparison or
\* addition and accepts no parenthesis, so the program is rejected with a
\* ParseError and this is violated.)
C10_ForLoopPipeline ==
    (Ran("SrcFor") \/ Ran("SrcForParen")) =>
        /\ last.error = ""
        /\ last.stdout = <<<<"1", "2", "3">>>>

\* C11: through the whole pipeline, a conditional with an else branch whose
\* condition is the false value of the language (the text "DILI", as the
\* README writes a TINUOD) executes the statements of its else branch and
\* none of its then branch, whether the second branch is opened by KUNG DILI
\* or by KUNG WALA.  (The claim as stated; the scanner hands over KUNG and a
\* second word, never the else keyword, and the text "DILI" is truthy, so
\* this is violated.)
C11_IfElsePipeline ==
    (Ran("SrcIfElse") \/ Ran("SrcIfWala")) =>
        /\ last.error = ""
        /\ last.printed = <<<<"e">>>>
        /\ last.stdout = <<<<"e">>>>

\* C12: a chained assignment is right-associative and shares one value.
\* IPAKITA: y = z = (x = -x), x holding v, leaves x, y and z holding -v (x
\* negated once) with their declared types and prints -v, the value the whole
\* expression yields; through the pipeline, MUGNA NUMERO x, y, z=5 then
\* x=y=4 parses to the assignment of (y = 4) to x, leaves x = 4, y = 4,
\* z = 5 and IPAKITA: x & z prints 45.
C12_ChainedAssignment ==
    /\ (Interpreted("Chain") /\ Has(last.pre, "x") /\ Has(last.pre, "y")
            /\ Has(last.pre, "z"))
          => /\ last.error = ""
             /\ \A n \in {"x", "y", "z"} :
                   Holds(environment, n, last.pre[1][n].type,
                         JsNeg(last.pre[1]["x"].value))
             /\ last.printed = <<stringify(JsNeg(last.pre[1]["x"].value))>>
    /\ Ran("SrcChain") =>
          /\ last.error = ""
          /\ Len(last.nodes) = 3
          /\ last.nodes[2].type = "AssignExpr"
          /\ last.nodes[2].name.lexeme = "x"
          /\ last.nodes[2].value.type = "AssignExpr"
          /\ last.nodes[2].value.name.lexeme = "y"
          /\ last.nodes[2].value.value = Lit(VNum(4))
          /\ Holds(environment, "x", "NUMERO", VNum(4))
          /\ Holds(environment, "y", "NUMERO", VNum(4))
          /\ Holds(environment, "z", "NUMERO", VNum(5))
          /\ last.stdout = <<<<"4", "5">>>>

\* C12 witness: the chain executed on an instance where x, y and z hold 5
C12_Witness ==
    /\ Interpreted("Chain")
    /\ \A n \in {"x", "y", "z"} : Holds(last.pre, n, "NUMERO", VNum(5))
    /\ \A n \in {"x", "y", "z"} : Holds(environment, n, "NUMERO", VNum(0 - 5))
    /\ last.printed = <<<<"-", "5">>>>

\* the last call left the instance as it found it and produced no output
Untouched ==
    /\ environment = last.pre
    /\ output = last.preOutput
    /\ last.printed = <<>>
    /\ last.stdout = <<>>

\* C13: the stages of run are invoked in the order scan, parse, interpret,
\* and a failure ends the run there: a run whose scan failed invoked no
\* parser, a run whose parse failed invoked no interpreter, and in both cases
\* no statements were handed on, nothing was printed and the instance is as
\* before the call; a lexical error after a print statement and a missing
\* KATAPUSAN after complete statements are such runs.
C13_StagesFailFast ==
    /\ last.op = "run" =>
          last.stages \in {<<"scan">>, <<"scan", "parse">>,
                           <<"scan", "parse", "interpret">>}
    /\ (last.op = "run" /\ last.stages = <<"scan">>) =>
          last.error = "Error" /\ last.nodes = <<>> /\ Untouched
    /\ (last.op = "run" /\ last.stages = <<"scan", "parse">>) =>
          last.error = "ParseError" /\ last.nodes = <<>> /\ Untouched
    /\ (last.op = "run" /\ last.error = "ParseError") =>
          last.stages = <<"scan", "parse">>
    /\ Ran("SrcBadChar") =>
          /\ last.stages = <<"scan">>
          /\ last.message = "Unexpected character '%'"
    /\ Ran("SrcNoEnd") =>
          /\ last.stages = <<"scan", "parse">>
          /\ last.message = "Expect 'KATAPUSAN' at end of program."

\* C13 witness: the parse failed after two complete statements, on an
\* instance that does not hold the variable they declare
C13_Witness ==
    /\ Ran("SrcNoEnd")
    /\ ~Has(last.pre, "y")
    /\ last.error = "ParseError"
    /\ Len(last.tokens) > 8

\* C14: the parser's expression entry point traverses every precedence
\* level: IPAKITA: 1 + 2 * 3 parses to one print of the sum of 1 and the
\* product and prints 7, and IPAKITA: -1 * 2 + 3 < 4 == 5 parses to the node
\* that the rule equality (with comparison, term, factor and unary below it)
\* builds from those tokens.  (The claim as stated; expression calls
\* assignment and assignment calls primary, so no operator but & and = is
\* ever parsed and this is violated.)
C14_PrecedenceChain ==
    /\ Ran("SrcArith") =>
          /\ last.error = ""
          /\ Len(last.nodes) = 1
          /\ last.nodes[1].type = "PrintStmt"
          /\ last.nodes[1].value.type = "BinaryExpr"
          /\ last.nodes[1].value.operator.type = "+"
          /\ last.nodes[1].value.right.type = "BinaryExpr"
          /\ last.nodes[1].value.right.operator.type = "*"
          /\ last.stdout = <<<<"7">>>>
    /\ Ran("SrcPrecedence") =>
          /\ last.error = ""
          /\ Len(last.nodes) = 1
          /\ last.nodes[1].type = "PrintStmt"
          /\ last.nodes[1].value =
                equality([NewParser(last.tokens) EXCEPT !.current = 3]).node

\* C15: the scanner emits one keyword token for each multi-word entry of its
\* keyword table: scanning a source that holds ALANG SA, KUNG DILI or KUNG
\* WALA, the words one space apart, yields a token of that type.  (The claim
\* as stated; identifier() consumes letters, digits and underscores only, so
\* the text it looks up never holds a space and this is violated.)
C15_MultiWordKeywords ==
    /\ Ran("SrcFor") =>
          \E i \in 1..Len(last.tokens) : last.tokens[i].type = "ALANG SA"
    /\ Ran("SrcIfElse") =>
          \E i \in 1..Len(last.tokens) : last.tokens[i].type = "KUNG DILI"
    /\ Ran("SrcIfWala") =>
          \E i \in 1..Len(last.tokens) : last.tokens[i].type = "KUNG WALA"

\* C16: a declaration whose token after MUGNA is an integer, character, text
\* or decimal literal is rejected with a ParseError: no statements are
\* produced and nothing is declared.  (The claim as stated; a literal token
\* carries the same token type as the type keyword of its kind, so the
\* parser's test of the type lets it through and this is violated.)
C16_TypeKeywordRequired ==
    Ran("SrcDeclLiteral") =>
        /\ last.error = "ParseError"
        /\ last.nodes = <<>>
        /\ environment = last.pre

\* C17: when a RuntimeError ends a call after print statements have
\* executed, the caller receives their text with the error: run writes it to
\* the console, interpret hands it to its caller.  (The claim as stated;
\* interpret rethrows the error, which carries a message and a token, and the
\* text stays in the private output field until the next call clears it, so
\* this is violated.)
C17_PartialOutputSurfaced ==
    (last.error = "RuntimeError" /\ last.printed # <<>>) =>
        IF last.op = "run"
        THEN \E i \in 1..Len(last.stdout) : last.stdout[i] = Concat(last.printed)
        ELSE last.returned = Concat(last.printed)

\* C18: the scanner accepts the README's sample program and an escape code
\* in brackets: the scan completes and its token sequence ends with the EOF
\* token.  (The claim as stated; scanToken has no case for $, [, ] or #, so
\* each raises "Unexpected character" and this is violated.)
C18_ReadmeSampleScans ==
    (Ran("SrcSample") \/ Ran("SrcEscape")) =>
        /\ Len(last.stages) >= 2
        /\ Len(last.tokens) >= 1
        /\ last.tokens[Len(last.tokens)].type = "EOF"

=============================================================================
